---- MODULE Spec2Model ----
(***************************************************************************)
(* Model of the ExpenseTracker component (src/src/App.tsx): the record     *)
(* list, the entry form, the persisted document under STORAGE_KEY and the  *)
(* count-up animation of the displayed balance.                            *)
(*                                                                         *)
(* Numbers are IEEE 754 doubles: every arithmetic operation of the code is *)
(* the exact operation followed by the rounding to the nearest double.     *)
(* Texts that the code parses or trims (description, amountStr) are        *)
(* sequences of characters.                                                *)
(***************************************************************************)
EXTENDS Integers, Sequences, FiniteSets, TLC

VARIABLES
    status,          \* "unmounted" | "mounted" | "crashed" (render threw)
    storage,         \* the document under STORAGE_KEY in localStorage
    transactions,    \* useState<Transaction[]>
    form,            \* description, amountStr, category, type, date
    displayBalance,  \* useState(0)
    prevBalanceRef,  \* useRef<number>(0)
    anim,            \* the closure of the running count-up effect
    last             \* history: the last handler that ran and its outcome

vars == <<status, storage, transactions, form, displayBalance, prevBalanceRef,
          anim, last>>

----------------------------------------------------------------------------
(* Bounds of the model *)

\* the longest record list
MaxTx == 2

\* the longest record list where the balance is summed in every order
MaxSumTx == 3

(* Program constants *)

Duration == 550

MsPerDay == 24 * 60 * 60 * 1000

----------------------------------------------------------------------------
(* Natural numbers of any size *)

\* A natural number is the sequence of its digits in base 2^15, the least
\* significant first and the most significant not 0; 0 is <<>>.
Base == 2 ^ 15

Big(n) ==
    IF n = 0 THEN <<>>
    ELSE IF n < Base THEN <<n>>
    ELSE IF n < Base * Base THEN <<n % Base, n \div Base>>
    ELSE <<n % Base, (n \div Base) % Base, n \div (Base * Base)>>

Zeros(n) == [i \in 1..n |-> 0]

\* digit i of a
Digit(a, i) == IF i \in 1..Len(a) THEN a[i] ELSE 0

\* a without the 0 digits at its most significant end
Strip(a) ==
    LET nz == {i \in 1..Len(a) : a[i] # 0} IN
    IF nz = {} THEN <<>>
    ELSE SubSeq(a, 1, CHOOSE i \in nz : \A j \in nz : j <= i)

Odd(a) == a # <<>> /\ a[1] % 2 = 1

\* a + b: a carry enters digit i when the digits at some place below add up
\* to Base or more and those at the places between add up to Base - 1
BigAdd(a, b) ==
    LET n == IF Len(a) > Len(b) THEN Len(a) ELSE Len(b)
        sum(i) == Digit(a, i) + Digit(b, i)
        carry(i) ==
            IF \E j \in 1..(i - 1) :
                  /\ sum(j) >= Base
                  /\ \A h \in (j + 1)..(i - 1) : sum(h) = Base - 1
            THEN 1 ELSE 0
    IN  [i \in 1..n |-> (sum(i) + carry(i)) % Base]
            \o (IF carry(n + 1) = 1 THEN <<1>> ELSE <<>>)

\* a - b for a >= b: digit i lends when a digit of a at some place below is
\* less than b's and the digits at the places between are equal
BigSub(a, b) ==
    LET borrow(i) ==
            IF \E j \in 1..(i - 1) :
                  /\ a[j] < Digit(b, j)
                  /\ \A h \in (j + 1)..(i - 1) : a[h] = Digit(b, h)
            THEN 1 ELSE 0
    IN  Strip([i \in 1..Len(a) |-> (a[i] - Digit(b, i) - borrow(i)) % Base])

\* -1, 0, 1 as a < b, a = b, a > b
BigCmp(a, b) ==
    LET diff == {i \in 1..Len(a) : a[i] # b[i]}
        top == CHOOSE i \in diff : \A j \in diff : j <= i
    IN  IF Len(a) # Len(b) THEN (IF Len(a) < Len(b) THEN 0 - 1 ELSE 1)
        ELSE IF diff = {} THEN 0
        ELSE IF a[top] < b[top] THEN 0 - 1 ELSE 1

\* a * k for 0 <= k < 2^15: the low halves of the digits' products plus the
\* high halves one place up
BigMulSmall(a, k) ==
    Strip(BigAdd([i \in 1..Len(a) |-> (a[i] * k) % Base],
                 <<0>> \o [i \in 1..Len(a) |-> (a[i] * k) \div Base]))

\* a * (the digits lo..hi of b, taken as a number)
RECURSIVE ProductRange(_, _, _, _)
ProductRange(a, b, lo, hi) ==
    IF lo = hi THEN BigMulSmall(a, b[lo])
    ELSE BigAdd(ProductRange(a, b, lo, (lo + hi) \div 2),
                Zeros((lo + hi) \div 2 + 1 - lo)
                    \o ProductRange(a, b, (lo + hi) \div 2 + 1, hi))

BigMul(a, b) ==
    IF a = <<>> \/ b = <<>> THEN <<>> ELSE Strip(ProductRange(a, b, 1, Len(b)))

\* The long division of a by k, 0 < k <= 2^15, over the digits lo..hi, with
\* the remainder r of the digits above hi: the quotient's digits lo..hi and
\* the remainder left below digit lo.  The digits are split in halves, and
\* the remainder of the high half is looked at (it is never negative) before
\* the low half is divided, which keeps the evaluation shallow.
RECURSIVE DivRange(_, _, _, _, _)

DivJoin(l, h) == [d |-> l.d \o h.d, r |-> l.r]

DivLow(a, k, lo, mid, h) ==
    IF h.r < 0 THEN h ELSE DivJoin(DivRange(a, k, lo, mid, h.r), h)

DivRange(a, k, lo, hi, r) ==
    IF lo = hi
    THEN [d |-> <<(r * Base + a[lo]) \div k>>, r |-> (r * Base + a[lo]) % k]
    ELSE DivLow(a, k, lo, (lo + hi) \div 2,
                DivRange(a, k, (lo + hi) \div 2 + 1, hi, r))

Quotient(x) == [q |-> Strip(x.d), r |-> x.r]

\* quotient and remainder of a by k, 0 < k <= 2^15
BigDivSmall(a, k) ==
    IF a = <<>> THEN [q |-> <<>>, r |-> 0]
    ELSE Quotient(DivRange(a, k, 1, Len(a), 0))

\* the number of binary digits of a
BitLen(a) ==
    IF a = <<>> THEN 0
    ELSE 15 * (Len(a) - 1)
            + (CHOOSE n \in 1..15 : 2 ^ (n - 1) <= a[Len(a)] /\ a[Len(a)] < 2 ^ n)

\* a * 2^k
ShiftLeft(a, k) ==
    LET s == 2 ^ (k % 15) IN
    IF a = <<>> THEN <<>>
    ELSE Zeros(k \div 15)
            \o Strip([i \in 1..(Len(a) + 1) |->
                        ((Digit(a, i) * s) % Base) + ((Digit(a, i - 1) * s) \div Base)])

\* a \div 2^k, and sticky: the division left a remainder
ShiftRight(a, k) ==
    LET w == k \div 15
        s == 2 ^ (k % 15)
    IN  [q |-> Strip([i \in 1..(Len(a) - w) |->
                        (a[i + w] \div s) + (Digit(a, i + w + 1) % s) * (Base \div s)]),
         sticky |-> \E i \in 1..Len(a) :
                        \/ i <= w /\ a[i] # 0
                        \/ i = w + 1 /\ a[i] % s # 0]

\* the number of 0 digits that end the binary numeral of a, a # 0
TrailingZeros(a) ==
    LET i == CHOOSE i \in 1..Len(a) : a[i] # 0 /\ \A j \in 1..(i - 1) : a[j] = 0
    IN  15 * (i - 1)
            + (CHOOSE z \in 0..14 : a[i] % (2 ^ z) = 0 /\ a[i] % (2 ^ (z + 1)) # 0)

\* 10^k
RECURSIVE Pow10(_)
Pow10(k) ==
    IF k <= 4 THEN <<10 ^ k>>
    ELSE BigMul(Pow10(k \div 2), Pow10(k - k \div 2))

\* a * 10^k
MulPow10(a, k) == BigMul(a, Pow10(k))

\* a \div 10^k, and r: 0 exactly when the division left no remainder
RECURSIVE DivPow10(_, _)

WithRemainder(l, r) == [q |-> l.q, r |-> IF r # 0 THEN 1 ELSE l.r]

DivPow10Rest(h, k) ==
    IF h.q = <<>> THEN h ELSE WithRemainder(DivPow10(h.q, k), h.r)

DivPow10(a, k) ==
    IF k <= 4 THEN BigDivSmall(a, 10 ^ k)
    ELSE DivPow10Rest(DivPow10(a, k \div 2), k - k \div 2)

----------------------------------------------------------------------------
(* JavaScript numbers *)

\* A number is a record [k, neg, m, e]: k = "fin" for the double of value
\* (-1)^neg * m * 2^e, with m odd (at most 53 binary digits) or m = 0 and
\* e = 0, so that -0 is a value of its own; k = "inf", "ninf", "nan"; and
\* k = "null" for the JSON null that JSON.stringify writes for a number that
\* is not finite.  Two records are equal exactly when Object.is holds.
Num(k, neg, m, e) == [k |-> k, neg |-> neg, m |-> m, e |-> e]

PosInf == Num("inf", FALSE, <<>>, 0)
NegInf == Num("ninf", TRUE, <<>>, 0)
NaN == Num("nan", FALSE, <<>>, 0)
Null == Num("null", FALSE, <<>>, 0)
Zero == Num("fin", FALSE, <<>>, 0)
One == Num("fin", FALSE, <<1>>, 0)

Inf(neg) == IF neg THEN NegInf ELSE PosInf

\* the double of value (-1)^neg * m * 2^e, which needs no rounding
Exact(neg, m, e) ==
    IF m = <<>> THEN Num("fin", neg, <<>>, 0)
    ELSE Num("fin", neg, ShiftRight(m, TrailingZeros(m)).q, e + TrailingZeros(m))

MinExp == 0 - 1074

\* (-1)^neg * m * 2^e for m of at most 53 binary digits: Infinity when it
\* is beyond the doubles
Finite(neg, m, e) ==
    IF BitLen(m) + e > 1024 THEN Inf(neg) ELSE Exact(neg, m, e)

\* the rounding of (-1)^neg * (x.q + d) * 2^(ex - 1), 0 <= d < 1, to a
\* multiple of 2^ex: the last digit of x.q is the half
RoundOff(neg, x, ex, sticky, mode) ==
    LET half == Odd(x.q)
        mant == ShiftRight(x.q, 1).q
        more == x.sticky \/ sticky
        up == CASE mode = "even" -> half /\ (more \/ Odd(mant))
                [] mode = "down" -> FALSE
                [] OTHER -> half \/ more
    IN  Finite(neg, IF up THEN BigAdd(mant, <<1>>) ELSE mant, ex)

\* The double for the value (-1)^neg * (q + d) * 2^e, where 0 <= d < 1 and
\* sticky tells that d # 0 (then q has at least 55 binary digits): rounded
\* to 53 binary digits, or to a multiple of 2^-1074; mode "even" is the
\* rounding of the arithmetic (to nearest, ties to even), "down" and "up"
\* are the doubles next to the value toward 0 and away from it.
Round(neg, q, e, sticky, mode) ==
    LET want == e + BitLen(q) - 53
        ex == IF want < MinExp THEN MinExp ELSE want
    IN  IF ex <= e THEN Finite(neg, q, e)
        ELSE RoundOff(neg, ShiftRight(q, ex - e - 1), ex, sticky, mode)

\* the double nearest p / 10^k
NearestDecimal(neg, p, k) ==
    LET s == IF 56 + 4 * k > BitLen(p) THEN 56 + 4 * k - BitLen(p) ELSE 0
        d == DivPow10(ShiftLeft(p, s), k)
    IN  IF p = <<>> THEN Num("fin", neg, <<>>, 0)
        ELSE Round(neg, d.q, 0 - s, d.r # 0, "even")

\* the double nearest a / b, for integers a >= 0 and 0 < b <= 2^15
NearestQuotient(a, b) ==
    LET s == IF 72 > BitLen(Big(a)) THEN 72 - BitLen(Big(a)) ELSE 0
        d == BigDivSmall(ShiftLeft(Big(a), s), b)
    IN  IF a = 0 THEN Zero ELSE Round(FALSE, d.q, 0 - s, d.r # 0, "even")

IsNaN(x) == x.k = "nan"

IsZero(x) == x.k = "fin" /\ x.m = <<>>

\* x <= 0
LeqZero(x) == x.k = "ninf" \/ (x.k = "fin" /\ (x.neg \/ x.m = <<>>))

\* -x (-null is -0)
NumNeg(x) ==
    CASE x.k = "fin" -> [x EXCEPT !.neg = ~x.neg]
      [] x.k = "inf" -> NegInf
      [] x.k = "ninf" -> PosInf
      [] x.k = "null" -> Num("fin", TRUE, <<>>, 0)
      [] OTHER -> x

\* JSON null read as a number (null + 1 is 1)
ToNumber(x) == IF x.k = "null" THEN Zero ELSE x

\* (-1)^xneg * a * 2^e + (-1)^yneg * b * 2^e for a, b # 0
AddAligned(xneg, a, yneg, b, e) ==
    LET c == BigCmp(a, b) IN
    IF xneg # yneg /\ c = 0 THEN Zero
    ELSE Round(IF xneg = yneg \/ c > 0 THEN xneg ELSE yneg,
               IF xneg = yneg THEN BigAdd(a, b)
               ELSE IF c > 0 THEN BigSub(a, b) ELSE BigSub(b, a),
               e, FALSE, "even")

\* x + y for finite x and y
FinAdd(x, y) ==
    LET e == IF x.e < y.e THEN x.e ELSE y.e IN
    IF x.m = <<>> /\ y.m = <<>> THEN Num("fin", x.neg /\ y.neg, <<>>, 0)
    ELSE IF x.m = <<>> THEN y
    ELSE IF y.m = <<>> THEN x
    ELSE AddAligned(x.neg, ShiftLeft(x.m, x.e - e),
                    y.neg, ShiftLeft(y.m, y.e - e), e)

\* x + y
NumAdd(x0, y0) ==
    LET x == ToNumber(x0)
        y == ToNumber(y0)
    IN  CASE x.k = "nan" \/ y.k = "nan" -> NaN
          [] x.k = "fin" /\ y.k = "fin" -> FinAdd(x, y)
          [] x.k = "fin" -> y
          [] y.k = "fin" -> x
          [] x.k = y.k -> x
          [] OTHER -> NaN

\* x - y
NumSub(x, y) == NumAdd(x, NumNeg(ToNumber(y)))

\* x * y
NumMul(x0, y0) ==
    LET x == ToNumber(x0)
        y == ToNumber(y0)
        neg == x.neg # y.neg
    IN  CASE x.k = "nan" \/ y.k = "nan" -> NaN
          [] x.k = "fin" /\ y.k = "fin" ->
                Round(neg, BigMul(x.m, y.m), x.e + y.e, FALSE, "even")
          [] IsZero(x) \/ IsZero(y) -> NaN
          [] OTHER -> Inf(neg)

\* 10^21, from which toFixed writes the number as String does
Ten21 == Pow10(21)

\* Number(x.toFixed(2)): toFixed takes the integer n nearest |x| * 100, the
\* larger one of two, writes n / 100 with the sign of x, and Number reads
\* that text
Round2(x) ==
    IF x.k # "fin" \/ x.m = <<>> THEN (IF x.k = "fin" THEN Zero ELSE x)
    ELSE IF x.e >= 0 /\ BigCmp(ShiftLeft(x.m, x.e), Ten21) >= 0 THEN x
    ELSE LET c == BigMulSmall(x.m, 100)
             h == ShiftRight(c, 0 - x.e - 1)
             n == IF x.e >= 0 THEN ShiftLeft(c, x.e)
                  ELSE BigAdd(ShiftRight(h.q, 1).q, IF Odd(h.q) THEN <<1>> ELSE <<>>)
         IN  NearestDecimal(x.neg, n, 2)

\* Math.pow(x, 3) for a finite x: the power is implementation-approximated;
\* the outcomes are the doubles next to the exact power on either side (the
\* power itself when it is a double)
Pow3(x) ==
    LET m == BigMul(x.m, BigMul(x.m, x.m)) IN
    { Round(x.neg, m, 3 * x.e, FALSE, "down"), Round(x.neg, m, 3 * x.e, FALSE, "up") }

----------------------------------------------------------------------------
(* Texts *)

\* A text is the sequence of its characters.  A character of ASCII is the
\* string of that one character; any other character is the string "U+hhhh"
\* of its code point in four hexadecimal digits ("U+00E9" for e with an
\* acute accent), since a string of this language holds ASCII only.
\* WhiteSpace: the white space and line terminator characters of JavaScript
\* (tab, line feed, vertical tab, form feed, carriage return, space,
\* no-break space, the other space separators of Unicode, line separator,
\* paragraph separator, byte order mark).
WhiteSpace ==
    { "\t", "\n", "", "\f", "\r", " ", "U+00A0", "U+1680",
      "U+2000", "U+2001", "U+2002", "U+2003", "U+2004", "U+2005", "U+2006",
      "U+2007", "U+2008", "U+2009", "U+200A", "U+2028", "U+2029", "U+202F",
      "U+205F", "U+3000", "U+FEFF" }

At(s, i) == IF i \in 1..Len(s) THEN s[i] ELSE ""

Digits == {"0", "1", "2", "3", "4", "5", "6", "7", "8", "9"}

DigitVal(c) == CHOOSE d \in 0..9 : ToString(d) = c

\* the first index from i on where s has no character of the set
RunEnd(s, i, set) ==
    CHOOSE j \in i..(Len(s) + 1) :
        /\ At(s, j) \notin set
        /\ \A h \in i..(j - 1) : s[h] \in set

SkipSpaces(s, i) == RunEnd(s, i, WhiteSpace)

DigitsEnd(s, i) == RunEnd(s, i, Digits)

\* the value of the digits s[i..j-1]
RECURSIVE DigitsValue(_, _, _)
DigitsValue(s, i, j) ==
    IF j <= i THEN <<>>
    ELSE IF j = i + 1 THEN Big(DigitVal(s[i]))
    ELSE BigAdd(MulPow10(DigitsValue(s, i, (i + j) \div 2), j - (i + j) \div 2),
                DigitsValue(s, (i + j) \div 2, j))

\* the value of the digits s[i..j-1] of an exponent, or 9999 when it is more
ExponentValue(s, i, j) ==
    IF BigCmp(DigitsValue(s, i, j), <<9999>>) > 0 THEN 9999
    ELSE Digit(DigitsValue(s, i, j), 1)

\* the exponent that starts at s[i]: e or E, a sign, digits; 0 without one
ExponentPart(s, i) ==
    LET e1 == IF At(s, i + 1) \in {"+", "-"} THEN i + 2 ELSE i + 1
        e2 == DigitsEnd(s, e1)
    IN  IF At(s, i) \notin {"e", "E"} \/ e2 = e1 THEN 0
        ELSE (IF At(s, i + 1) = "-" THEN 0 - 1 ELSE 1) * ExponentValue(s, e1, e2)

\* the double nearest (-1)^neg * digits * 10^exp10, digits of n decimal digits
DecimalValue(neg, digits, exp10, n) ==
    IF digits = <<>> THEN Num("fin", neg, <<>>, 0)
    ELSE IF exp10 > 400 THEN Inf(neg)
    ELSE IF exp10 + n < 0 - 400 THEN Num("fin", neg, <<>>, 0)
    ELSE IF exp10 >= 0 THEN Round(neg, MulPow10(digits, exp10), 0, FALSE, "even")
    ELSE NearestDecimal(neg, digits, 0 - exp10)

\* the decimal literal with the integer digits s[i1..i2-1], the fraction
\* digits s[i2+1..i3-1] (none when i3 = i2: no point) and the exponent that
\* starts at s[i3]
StrDecimalLiteral(s, neg, i1, i2, i3) ==
    LET nFrac == IF i3 > i2 THEN i3 - (i2 + 1) ELSE 0 IN
    IF i2 = i1 /\ nFrac = 0 THEN NaN
    ELSE DecimalValue(neg,
                      BigAdd(MulPow10(DigitsValue(s, i1, i2), nFrac),
                             DigitsValue(s, i2 + 1, i3)),
                      ExponentPart(s, i3) - nFrac,
                      i2 - i1 + nFrac)

StartsWith(s, i, w) == \A j \in 1..Len(w) : At(s, i + j - 1) = w[j]

InfinityText == <<"I", "n", "f", "i", "n", "i", "t", "y">>

\* String.prototype.trim
Trim(s) ==
    LET nonSpace == {i \in 1..Len(s) : s[i] \notin WhiteSpace} IN
    IF nonSpace = {} THEN <<>>
    ELSE LET lo == CHOOSE i \in nonSpace : \A j \in nonSpace : i <= j
             hi == CHOOSE i \in nonSpace : \A j \in nonSpace : j <= i
         IN SubSeq(s, lo, hi)

\* parseFloat: leading white space, a sign, then Infinity or the longest
\* decimal literal (digits, a fraction, an exponent); what follows is
\* ignored; NaN when no literal starts the text.  The value is the double
\* nearest the literal.
parseFloat(s) ==
    LET i0 == SkipSpaces(s, 1)
        i1 == IF At(s, i0) \in {"+", "-"} THEN i0 + 1 ELSE i0
        i2 == DigitsEnd(s, i1)
        i3 == IF At(s, i2) = "." THEN DigitsEnd(s, i2 + 1) ELSE i2
    IN  IF StartsWith(s, i1, InfinityText) THEN Inf(At(s, i0) = "-")
        ELSE StrDecimalLiteral(s, At(s, i0) = "-", i1, i2, i3)

\* new Date(now).toISOString().slice(0, 10), for the days of January 1970
ISODate(now) ==
    LET d == now \div MsPerDay + 1 IN
    "1970-01-" \o (IF d < 10 THEN "0" ELSE "") \o ToString(d)

----------------------------------------------------------------------------
(* The persisted document *)

\* A document is [kind, items]: "missing" (no key), "empty" (the empty text),
\* "unparsable" (JSON.parse throws), "value" (JSON that is no array, such as
\* {"a":1} or 42), "junkarray" (an array with an element that has no amount,
\* such as [1,2]) or "array" (an array of record objects, in items).
Doc(kind, items) == [kind |-> kind, items |-> items]

\* JSON.stringify of a number: a number that is not finite is written as
\* null and -0 as 0; JSON.parse reads the text of a double as that double
JsonNumber(x) == IF x.k # "fin" THEN Null ELSE IF x.m = <<>> THEN Zero ELSE x

\* JSON.stringify(transactions)
Stringify(txs) ==
    Doc("array", [i \in 1..Len(txs) |-> [txs[i] EXCEPT !.amount = JsonNumber(@)]])

\* The useState initializer: what the component starts with.  array: the
\* value is an array; records: each of its elements is a record object.
LoadTransactions(doc) ==
    CASE doc.kind \in {"missing", "empty", "unparsable"} ->
            [array |-> TRUE, records |-> TRUE, items |-> <<>>]
      [] doc.kind = "value" ->
            [array |-> FALSE, records |-> FALSE, items |-> <<>>]
      [] doc.kind = "junkarray" ->
            [array |-> TRUE, records |-> FALSE, items |-> <<>>]
      [] OTHER ->
            [array |-> TRUE, records |-> TRUE, items |-> doc.items]

\* The first render throws a TypeError: transactions.reduce of a value that
\* is no array, or formatCurrency(t.amount) of a missing or null amount.
RenderThrows(loaded) ==
    \/ ~loaded.array
    \/ ~loaded.records
    \/ \E i \in 1..Len(loaded.items) : loaded.items[i].amount.k = "null"

----------------------------------------------------------------------------
(* Derived values *)

RECURSIVE BalanceFrom(_, _, _)
BalanceFrom(txs, i, acc) ==
    IF i > Len(txs) THEN acc
    ELSE BalanceFrom(txs, i + 1,
            NumAdd(acc, IF txs[i].type = "Income" THEN txs[i].amount
                        ELSE NumNeg(txs[i].amount)))

\* transactions.reduce(..., 0)
balance(txs) == BalanceFrom(txs, 1, Zero)

\* Math.min(1, (now - start) / duration) with now - start = elapsed, a whole
\* number of milliseconds
Progress(elapsed) ==
    IF elapsed >= Duration THEN One ELSE NearestQuotient(elapsed, Duration)

\* step(now): the value handed to setDisplayBalance when Math.pow gave cube
StepValue(from, to, elapsed, cube) ==
    Round2(NumAdd(from, NumMul(NumSub(to, from), NumSub(One, cube))))

\* step(now) with now - start = elapsed: the values that it can hand to
\* setDisplayBalance
StepValues(from, to, elapsed) ==
    {StepValue(from, to, elapsed, cube) :
        cube \in Pow3(NumSub(One, Progress(elapsed)))}

----------------------------------------------------------------------------
(* Inputs *)

TextCoffee == <<" ", "C", "o", "f", "f", "e", "e">>
TextPaycheck == <<"P", "a", "y", "c", "h", "e", "c", "k", " ">>

\* an onChange event: the field of the form and the value typed or picked
Input(field, value) == [field |-> field, value |-> value]

\* what the user enters in the store's runs: the records of the
\* specification's scenario and an amount of Infinity
StoreInputs ==
    { Input("description", TextCoffee),
      Input("description", TextPaycheck),
      Input("amountStr", <<"4", ".", "5", "0">>),
      Input("type", "Income") }

\* what the user enters in the runs that sum the balance: amounts whose sum
\* is not a double
SumInputs ==
    { Input("description", TextCoffee),
      Input("amountStr", <<"5">>),
      Input("amountStr", <<"0", ".", "0", "0", "5">>) }

\* what the user enters in the runs that the validation is about: every
\* field of the form, blank descriptions and amounts that are no positive
\* finite number
FormInputs ==
    { Input("description", TextCoffee),
      Input("description", <<" ", "\t", "\n", "U+00A0">>),
      Input("amountStr", <<"a", "b", "c">>),
      Input("amountStr", <<"0">>),
      Input("amountStr", <<"-", "5">>),
      Input("amountStr", <<"I", "n", "f", "i", "n", "i", "t", "y">>),
      Input("category", "Food"),
      Input("date", "2024-01-02") }

\* what the user enters in the runs that follow the animation frame by frame
AnimInputs ==
    { Input("description", TextPaycheck),
      Input("amountStr", <<"1", "0", "0", "0">>),
      Input("amountStr", <<"I", "n", "f", "i", "n", "i", "t", "y">>) }

\* readings of the wall clock (Date.now(), new Date()), in ms since the epoch
ClockReadings == {1000, 1001}

\* time between the start of a run or a frame and the next frame, in ms
FrameGaps == {275}

\* a background tab: the next frame comes after the run's duration
LongGaps == {Duration}

\* ids the user may ask to delete that no record carries
AbsentIds == {"7"}

Form(description, amountStr, category, type, date) ==
    [description |-> description, amountStr |-> amountStr,
     category |-> category, type |-> type, date |-> date]

Tx(id, description, amount, category, type, date) ==
    [id |-> id, description |-> description, amount |-> amount,
     category |-> category, type |-> type, date |-> date]

\* documents found in localStorage when the page is first opened
InitialDocs ==
    { Doc("missing", <<>>), Doc("empty", <<>>), Doc("unparsable", <<>>),
      Doc("value", <<>>), Doc("junkarray", <<>>), Doc("array", <<>>) }

----------------------------------------------------------------------------
(* The component *)

EmptyForm(now) == Form(<<>>, <<>>, "Other", "Expense", ISODate(now))

NoRun ==
    [pending |-> FALSE, from |-> Zero, to |-> Zero, elapsed |-> 0,
     retarget |-> FALSE, first |-> TRUE]

\* op: the handler; ok: it went through (mount: the render did not throw,
\* add: the input was accepted, delete: a record carried the id); arg: the
\* document kind found (mount) or the id asked for (delete)
Last(op, ok, arg) == [op |-> op, ok |-> ok, arg |-> arg]

Init ==
    /\ status = "unmounted"
    /\ storage \in InitialDocs
    /\ transactions = <<>>
    /\ form = EmptyForm(0)
    /\ displayBalance = Zero
    /\ prevBalanceRef = Zero
    /\ anim = NoRun
    /\ last = Last("none", TRUE, "")

\* The count-up effect, run after a render whose balance differs from the
\* previous render's: the cleanup cancels the pending frame, then a new run
\* is started.
RunEffect(newBalance) ==
    [pending |-> TRUE, from |-> prevBalanceRef, to |-> newBalance,
     elapsed |-> 0, retarget |-> anim.pending, first |-> FALSE]

\* the first run started at the balance itself: no count-up on mount
MountRunSettled(newBalance) ==
    [pending |-> TRUE, from |-> newBalance, to |-> newBalance, elapsed |-> 0,
     retarget |-> FALSE, first |-> TRUE]

\* The count-up effect of the first render: useState(0), useRef(0)
MountRun(newBalance) ==
    [pending |-> TRUE, from |-> Zero, to |-> newBalance, elapsed |-> 0,
     retarget |-> FALSE, first |-> TRUE]

\* The render that follows a change of the list: the effect's dependency
\* [balance] is compared (Object.is) with the balance of the render before,
\* which is the target of the last run started.
AnimAfter(newBalance) ==
    IF newBalance = anim.to THEN anim ELSE RunEffect(newBalance)

\* The component is mounted: state initializers, first render, then the two
\* effects (persist, count-up).
Mount ==
    /\ status = "unmounted"
    /\ \E now \in ClockReadings :
        LET loaded == LoadTransactions(storage) IN
        IF RenderThrows(loaded)
        THEN /\ status' = "crashed"
             /\ last' = Last("mount", FALSE, storage.kind)
             /\ UNCHANGED <<storage, transactions, form, displayBalance,
                            prevBalanceRef, anim>>
        ELSE /\ status' = "mounted"
             /\ transactions' = loaded.items
             /\ form' = EmptyForm(now)
             /\ displayBalance' = Zero
             /\ prevBalanceRef' = Zero
             /\ storage' = Stringify(loaded.items)
             /\ anim' = MountRun(balance(loaded.items))
             /\ last' = Last("mount", TRUE, storage.kind)

\* The component is unmounted (the page is closed): the effect's cleanup
\* cancels the pending frame; the component's state is gone.
Unmount ==
    /\ status = "mounted"
    /\ status' = "unmounted"
    /\ transactions' = <<>>
    /\ form' = EmptyForm(0)
    /\ displayBalance' = Zero
    /\ prevBalanceRef' = Zero
    /\ anim' = NoRun
    /\ last' = Last("unmount", TRUE, "")
    /\ UNCHANGED storage

\* An onChange event of one field of the form: the handlers setDescription,
\* setAmountStr, setCategory, setType and setDate store the field's value.
onChange(inputs) ==
    /\ status = "mounted"
    /\ \E in \in inputs : form' = [form EXCEPT ![in.field] = in.value]
    /\ last' = Last("edit", TRUE, "")
    /\ UNCHANGED <<status, storage, transactions, displayBalance,
                   prevBalanceRef, anim>>

\* the guard of addTransaction: the input is rejected
Rejected(description, amount) ==
    Trim(description) = <<>> \/ IsNaN(amount) \/ LeqZero(amount)

\* the record addTransaction builds from the form and the parsed amount at
\* clock reading now
NewTx(f, amount, now) ==
    Tx(ToString(now), Trim(f.description), amount,
       IF f.category = "" THEN "Other" ELSE f.category, f.type, f.date)

\* the new record put at the end: [...s, newTx]
AppendLast(tx, txs) == txs \o <<tx>>

\* setTransactions((s) => [newTx, ...s])
Prepend(tx, txs) == <<tx>> \o txs

\* addTransaction, with the effects of the render that follows; amount is
\* the constant of line 89; the list grows to at most maxTx records
addTransaction(maxTx) ==
    /\ status = "mounted"
    /\ \E amount \in {parseFloat(form.amountStr)} :
        IF Rejected(form.description, amount)
        THEN /\ last' = Last("add", FALSE, "")
             /\ UNCHANGED <<status, storage, transactions, form,
                            displayBalance, prevBalanceRef, anim>>
        ELSE /\ Len(transactions) < maxTx
             /\ \E now \in ClockReadings, today \in ClockReadings :
                 /\ now <= today
                 /\ LET txs == Prepend(NewTx(form, amount, now), transactions) IN
                     /\ transactions' = txs
                     /\ form' = EmptyForm(today)
                     /\ storage' = Stringify(txs)
                     /\ anim' = AnimAfter(balance(txs))
                     /\ last' = Last("add", TRUE, "")
             /\ UNCHANGED <<status, displayBalance, prevBalanceRef>>

\* the filter with its test inverted: the records with the id are the ones kept
RemoveIdInverted(txs, id) == SelectSeq(txs, LAMBDA t : t.id = id)

\* s.filter((t) => t.id !== id)
RemoveId(txs, id) == SelectSeq(txs, LAMBDA t : t.id # id)

\* deleteTx(id), with the effects of the render that follows
deleteTx ==
    /\ status = "mounted"
    /\ \E id \in {transactions[i].id : i \in 1..Len(transactions)} \cup AbsentIds :
        LET txs == RemoveId(transactions, id) IN
        /\ transactions' = txs
        /\ storage' = Stringify(txs)
        /\ anim' = AnimAfter(balance(txs))
        /\ last' = Last("delete", txs # transactions, id)
    /\ UNCHANGED <<status, form, displayBalance, prevBalanceRef>>

\* step(now): an animation frame of the running count-up
Frame(gaps) ==
    /\ status = "mounted"
    /\ anim.pending
    /\ \E gap \in gaps :
        LET e == IF anim.elapsed + gap > Duration THEN Duration
                 ELSE anim.elapsed + gap
        IN  /\ displayBalance' \in StepValues(anim.from, anim.to, e)
            /\ IF e < Duration
               THEN /\ anim' = [anim EXCEPT !.elapsed = e]
                    /\ UNCHANGED prevBalanceRef
               ELSE \* the run is over: its closure is dead
                    /\ anim' = [anim EXCEPT !.elapsed = e, !.pending = FALSE,
                                            !.from = anim.to,
                                            !.retarget = FALSE]
                    /\ prevBalanceRef' = anim.to
    /\ last' = Last("frame", TRUE, "")
    /\ UNCHANGED <<status, storage, transactions, form>>

\* The whole component; the frames of a run come LongGaps apart, so that a
\* run completes at its first frame.
Next ==
    \/ Mount
    \/ Unmount
    \/ onChange(StoreInputs)
    \/ addTransaction(MaxTx)
    \/ deleteTx
    \/ Frame(LongGaps)

Spec == Init /\ [][Next]_vars

\* The same component with the user entering SumInputs and lists of up to
\* MaxSumTx records.
NextSum ==
    \/ Mount
    \/ Unmount
    \/ onChange(SumInputs)
    \/ addTransaction(MaxSumTx)
    \/ deleteTx
    \/ Frame(LongGaps)

SpecSum == Init /\ [][NextSum]_vars

\* The same component with the user entering FormInputs.
NextForm ==
    \/ Mount
    \/ Unmount
    \/ onChange(FormInputs)
    \/ addTransaction(MaxTx)
    \/ deleteTx
    \/ Frame(LongGaps)

SpecForm == Init /\ [][NextForm]_vars

\* The same component with frames FrameGaps apart (a run takes several
\* frames) and the user entering AnimInputs.
NextAnim ==
    \/ Mount
    \/ Unmount
    \/ onChange(AnimInputs)
    \/ addTransaction(MaxTx)
    \/ deleteTx
    \/ Frame(FrameGaps)

SpecAnim == Init /\ [][NextAnim]_vars

----------------------------------------------------------------------------
(* Properties *)

Mounted == status = "mounted"

Ids(txs) == {txs[i].id : i \in 1..Len(txs)}

\* x === y
NumEq(x, y) == x.k # "nan" /\ (x = y \/ (IsZero(x) /\ IsZero(y)))

\* the amounts of the records of one type, added from the end of the list
RECURSIVE SumOfType(_, _)
SumOfType(txs, type) ==
    IF txs = <<>> THEN Zero
    ELSE NumAdd(SumOfType(Tail(txs), type),
                IF Head(txs).type = type THEN Head(txs).amount ELSE Zero)

SignedSum(txs) == NumSub(SumOfType(txs, "Income"), SumOfType(txs, "Expense"))

Reorderings(txs) ==
    LET n == Len(txs)
        perms == {f \in [1..n -> 1..n] : \A i, j \in 1..n : f[i] = f[j] => i = j}
    IN  {[i \in 1..n |-> txs[f[i]]] : f \in perms}

\* C1: after any adds and removes the computed balance, which is also the
\* target of the count-up, is the signed sum of the amounts of the records in
\* the list (Income added, Expense subtracted, 0 for the empty list), in
\* whatever order the records were added.
C1_BalanceIsSignedSum ==
    Mounted =>
        /\ NumEq(anim.to, balance(transactions))
        /\ \A r \in Reorderings(transactions) :
              NumEq(balance(r), SignedSum(transactions))

\* what the specification accepts: a description that is not blank and an
\* amount text that parses to a positive finite number
ValidInput(f) ==
    /\ Trim(f.description) # <<>>
    /\ parseFloat(f.amountStr).k = "fin"
    /\ ~LeqZero(parseFloat(f.amountStr))

\* C2: an add whose description is blank or whose amount text does not parse
\* to a positive finite number reports a validation failure and leaves the
\* record list, the persisted document and the form as they were.
C2_InvalidAddChangesNothing ==
    [][(last'.op = "add" /\ ~ValidInput(form))
          => (~last'.ok /\ UNCHANGED <<transactions, storage, form>>)]_vars

\* C3: after the save that follows a mutation, the persisted document holds
\* the current record list: loading it gives the same records, in the same
\* order, with the same field values.
C3_LoadOfSavedIsList ==
    Mounted =>
        LoadTransactions(storage)
            = [array |-> TRUE, records |-> TRUE, items |-> transactions]

\* C4: no two records of the list have the same id.
C4_UniqueIds ==
    \A i, j \in 1..Len(transactions) :
        transactions[i].id = transactions[j].id => i = j

NotARecordList == {"missing", "empty", "unparsable", "value", "junkarray"}

\* C5: when the stored document is missing or is not a well-formed record
\* list, load gives the empty list without an error: the component is
\* mounted with an empty list and balance 0.
C5_LoadFallsBackToEmpty ==
    (last.op = "mount" /\ last.arg \in NotARecordList) =>
        /\ Mounted
        /\ transactions = <<>>
        /\ balance(transactions) = Zero

\* after is before without the records that carry id: the other records are
\* all there, unchanged and in the same order
IsRemovalOf(before, after, id) ==
    LET keep == {i \in 1..Len(before) : before[i].id # id} IN
    /\ Len(after) = Cardinality(keep)
    /\ \A i \in keep : after[Cardinality({j \in keep : j <= i})] = before[i]

\* C6: remove(id) with an id that no record carries leaves the list as it is;
\* with an id that is present it deletes what carries the id and leaves the
\* other records and their order unchanged; a second remove(id) gives the
\* same list as the first.
C6_RemoveById ==
    [][last'.op = "delete" =>
          /\ IsRemovalOf(transactions, transactions', last'.arg)
          /\ (last'.arg \notin Ids(transactions) => transactions' = transactions)
          /\ last'.arg \notin Ids(transactions')
          /\ RemoveId(transactions', last'.arg) = transactions']_vars

\* a present id was removed and another record is still there
C6_Witness ==
    /\ last.op = "delete"
    /\ last.ok
    /\ Len(transactions) >= 1

\* C7: a successful add puts the new record, built from the form, at the
\* front and leaves the records that were there after it, unchanged and in
\* their order; so the list is ordered newest first.
C7_AddPrepends ==
    [][(last'.op = "add" /\ last'.ok) =>
          /\ Len(transactions') = Len(transactions) + 1
          /\ Tail(transactions') = transactions
          /\ Head(transactions').description = Trim(form.description)
          /\ Head(transactions').type = form.type
          /\ Head(transactions').date = form.date]_vars

\* Coffee was added, then Paycheck: the list is [Paycheck, Coffee]
C7_Witness ==
    /\ last.op = "add"
    /\ last.ok
    /\ Len(transactions) = 2
    /\ transactions[1].description = Trim(TextPaycheck)
    /\ transactions[1].type = "Income"
    /\ transactions[2].description = Trim(TextCoffee)
    /\ transactions[2].type = "Expense"

\* C8: when the balance changes while a run is pending, the new run starts
\* from the value displayed at that moment.
C8_RetargetFromDisplayed ==
    (Mounted /\ anim.pending /\ anim.retarget /\ anim.elapsed = 0)
        => NumEq(anim.from, displayBalance)

\* C9: when no frame is scheduled any more the animator is idle: the
\* displayed value is the balance rounded to 2 decimals and the
\* previous-target memory is the balance.
C9_IdleShowsBalance ==
    (Mounted /\ ~anim.pending) =>
        /\ NumEq(displayBalance, Round2(balance(transactions)))
        /\ NumEq(prevBalanceRef, balance(transactions))

\* C10 as stated: between mount and the first change of the balance the
\* displayed value is the balance of the loaded list.
C10_NoCountUpOnMount ==
    (Mounted /\ anim.first) => NumEq(displayBalance, balance(transactions))

\* C10 as amended: on mount the display starts at 0 and counts up to the
\* balance of the loaded list: until the balance first changes the displayed
\* value is 0 before the first frame and then the value interpolated from 0
\* toward that balance at the frame's elapsed time.
C10_MountCountsUpFromZero ==
    (Mounted /\ anim.first) =>
        displayBalance \in
            IF anim.elapsed = 0 THEN {Zero}
            ELSE StepValues(Zero, balance(transactions), anim.elapsed)

\* half-way through the first run over a loaded list with a balance that is
\* not 0: the display is neither 0 nor the balance
C10_Witness ==
    /\ Mounted
    /\ anim.first
    /\ anim.pending
    /\ anim.elapsed > 0
    /\ ~IsZero(balance(transactions))
    /\ ~IsZero(displayBalance)
    /\ displayBalance # balance(transactions)

====
